---------------------------- MODULE Spec2Model ----------------------------
(***************************************************************************)
(* A model of teuthology/provision/cloud/openstack.py: the retry wrapper,  *)
(* the node accessor, node creation with volume provisioning and rollback, *)
(* and node destruction, against a cloud backend whose calls may succeed,  *)
(* be rate limited, or fail.                                               *)
(***************************************************************************)
EXTENDS Integers, Sequences, FiniteSets, TLC

VARIABLES
    nodes,        \* backend: the node catalog, a sequence of [id, name]
    volumes,      \* backend: the volume list, a sequence of volume names
    nodeSeq,      \* backend: the last node id handed out
    self,         \* per session: the provisioner's fields [name, count, node]
    op,           \* per session: the operation in progress
    pc,           \* per session: the position inside the operation
    ret,          \* per session: how the operation ended (returned value or raised error)
    idx,          \* per session: the loop index of the volume loops
    all_volumes,  \* per session: the local all_volumes of _destroy_volumes
    log,          \* per session: the backend calls issued by the operation in progress
    failed,       \* per session: the place in log of the latest call that failed, or 0
    acc,          \* per session: the latest node accessor calls since the last create
    created,      \* per session: whether create was called on the provisioner
    plan,         \* retry alone: the behaviour of the wrapped operation
    rres,         \* retry alone: the outcome of the retry call
    provider,     \* provider handle: its conf, its driver's capabilities, its cached catalogs
    hist,         \* provider handle: per catalog, the latest accesses of its accessor
    input,        \* a computation alone: the function applied and its arguments
    output        \* a computation alone: its outcome

vars == <<nodes, volumes, nodeSeq, self, op, pc, ret, idx, all_volumes,
          log, failed, acc, created, plan, rres, provider, hist, input, output>>

backend == <<nodes, volumes, nodeSeq>>
retryVars == <<plan, rres>>
providerVars == <<provider, hist>>
pureVars == <<input, output>>
sessionVars == <<self, op, pc, ret, idx, all_volumes, log, failed, acc, created>>
\* What the operations of a provisioner leave alone.
aside == <<retryVars, providerVars, pureVars>>

(***************************************************************************)
(* Bounds of the model.                                                    *)
(***************************************************************************)
MaxVolumes == 3
MaxKeys == 1
MaxSizes == 2
MaxImages == 2
MaxGroups == 3
MaxNames == 2
MaxCount == 11

(***************************************************************************)
(* retry and the loops under safe_while.                                   *)
(***************************************************************************)
RetryTries == 24
ReadyTries == 20

\* Values are records tagged by their type.
None == [t |-> "None"]
Unset == [t |-> "unset"]
Bool(b) == [t |-> "bool", b |-> b]
Error(e) == [t |-> "error", e |-> e]
Node(id, name) == [t |-> "node", id |-> id, name |-> name]

\* The outcomes of one invocation of a backend operation.
Outcomes == {"ok", "transient", "fatal"}

RETRY_EXCEPTIONS == {"transient"}

\* The behaviour of an operation over a call of retry: its first n invocations
\* raise a rate-limit error, invocation n+1 ends as `last`, every later one as
\* `rest`.
OutcomeAt(p, i) ==
    IF i <= p.n THEN "transient" ELSE IF i = p.n + 1 THEN p.last ELSE p.rest

\* The value the i-th invocation returns when it succeeds.
ResultOf(i) == [t |-> "result", i |-> i]

\* safe_while's proceed(): true for the first `tries` calls, then it raises
\* MaxWhileTries.
Proceed(done, tries) == done < tries

\* retry as it would be if it retried after every error.
RECURSIVE RetryFromAnyError(_, _)
RetryFromAnyError(p, tries) ==
    IF ~Proceed(tries, RetryTries)
    THEN [kind |-> "raise", val |-> Error("MaxWhileTries"), calls |-> tries]
    ELSE LET t == tries + 1
             o == OutcomeAt(p, t)
         IN  IF o = "ok"
             THEN [kind |-> "return", val |-> ResultOf(t), calls |-> t]
             ELSE RetryFromAnyError(p, t)

\* retry as it would be if it returned only from a second or later invocation.
RECURSIVE RetryFromLateReturn(_, _)
RetryFromLateReturn(p, tries) ==
    IF ~Proceed(tries, RetryTries)
    THEN [kind |-> "raise", val |-> Error("MaxWhileTries"), calls |-> tries]
    ELSE LET t == tries + 1
             o == OutcomeAt(p, t)
         IN  IF o = "ok" /\ t > 1
             THEN [kind |-> "return", val |-> ResultOf(t), calls |-> t]
             ELSE IF o = "ok" \/ o \in RETRY_EXCEPTIONS
             THEN RetryFromLateReturn(p, t)
             ELSE [kind |-> "raise", val |-> Error(o), calls |-> t]

\* retry as it would be if a rate-limit error ended the loop with no result.
RECURSIVE RetryFromFallThrough(_, _)
RetryFromFallThrough(p, tries) ==
    IF ~Proceed(tries, RetryTries)
    THEN [kind |-> "raise", val |-> Error("MaxWhileTries"), calls |-> tries]
    ELSE LET t == tries + 1
             o == OutcomeAt(p, t)
         IN  IF o = "ok"
             THEN [kind |-> "return", val |-> ResultOf(t), calls |-> t]
             ELSE IF o \in RETRY_EXCEPTIONS
             THEN [kind |-> "return", val |-> None, calls |-> t]
             ELSE [kind |-> "raise", val |-> Error(o), calls |-> t]

\* The loop of retry after `tries` invocations: proceed(), tries += 1, the
\* invocation; a result is returned, an error of RETRY_EXCEPTIONS is passed
\* over, any other error propagates.
RECURSIVE RetryFrom(_, _)
RetryFrom(p, tries) ==
    IF ~Proceed(tries, RetryTries)
    THEN [kind |-> "raise", val |-> Error("MaxWhileTries"), calls |-> tries]
    ELSE LET t == tries + 1
             o == OutcomeAt(p, t)
         IN  IF o = "ok"
             THEN [kind |-> "return", val |-> ResultOf(t), calls |-> t]
             ELSE IF o \in RETRY_EXCEPTIONS
             THEN RetryFrom(p, t)
             ELSE [kind |-> "raise", val |-> Error(o), calls |-> t]

retry(p) == RetryFrom(p, 0)

(***************************************************************************)
(* Names are sequences of characters.                                      *)
(***************************************************************************)
Digit(d) == <<"0", "1", "2", "3", "4", "5", "6", "7", "8", "9">>[d + 1]

\* str(k) of an integer k.
RECURSIVE str(_)
str(k) ==
    IF k < 0 THEN <<"-">> \o str(-k)
    ELSE IF k < 10 THEN <<Digit(k)>>
    ELSE str(k \div 10) \o <<Digit(k % 10)>>

\* The index as it would be written with no zero filling.
ZeroPadNone(d, w) == d

\* "%0<w>d" % i for i >= 0: str(i), zero filled on the left to width w.
RECURSIVE ZeroPad(_, _)
ZeroPad(d, w) == IF Len(d) >= w THEN d ELSE ZeroPad(<<"0">> \o d, w)

startswith(v, prefix) ==
    /\ Len(v) >= Len(prefix)
    /\ SubSeq(v, 1, Len(prefix)) = prefix

\* The prefix "%s_" % self.name of the volumes of a node.
VolPrefix(name) == name \o <<"_">>

\* vol_names of _create_volumes: name_templ % (self.name, i) for i in
\* range(vol_count), the index zero filled to the width of str(vol_count - 1).
VolNames(name, vol_count) ==
    [i \in 1..vol_count |->
        VolPrefix(name) \o ZeroPad(str(i - 1), Len(str(vol_count - 1)))]

\* The sweep's selection as it would be if the prefix were the bare node name.
OurVolumesNoUnderscore(all, name) ==
    SelectSeq(all, LAMBDA v : startswith(v, name))

\* our_volumes of _destroy_volumes.
OurVolumes(all, name) ==
    SelectSeq(all, LAMBDA v : startswith(v, VolPrefix(name)))

\* The list without the first entry equal to v (the backend after a volume or
\* a node is destroyed).
RECURSIVE Without(_, _)
Without(seq, v) ==
    IF seq = <<>> THEN <<>>
    ELSE IF Head(seq) = v THEN Tail(seq)
    ELSE <<Head(seq)>> \o Without(Tail(seq), v)

(***************************************************************************)
(* The node accessor.                                                      *)
(***************************************************************************)
Matches(listing, name) == SelectSeq(listing, LAMBDA n : n.name = name)

\* The accessor as it would be if it never kept the node it found.
NodeLookupNoCache(cached, listing, name) ==
    IF cached # Unset
    THEN [kind |-> "return", val |-> cached, node |-> cached]
    ELSE IF listing = <<>>
    THEN [kind |-> "raise", val |-> Error("AttributeError"), node |-> cached]
    ELSE LET matches == Matches(listing, name)
         IN  IF matches = <<>>
             THEN [kind |-> "return", val |-> None, node |-> cached]
             ELSE IF Len(matches) > 1
             THEN [kind |-> "raise", val |-> Error("RuntimeError"), node |-> cached]
             ELSE [kind |-> "return", val |-> matches[1], node |-> cached]

\* The property `node` once the listing (if one is needed) is at hand: the
\* outcome of the access and the value of self._node after it.  The body of
\* the for loop leaves the loop in its first iteration on every branch; with
\* an empty listing it never runs, and `return self._node` reads an attribute
\* that was never set.
NodeLookup(cached, listing, name) ==
    IF cached # Unset
    THEN [kind |-> "return", val |-> cached, node |-> cached]
    ELSE IF listing = <<>>
    THEN [kind |-> "raise", val |-> Error("AttributeError"), node |-> cached]
    ELSE LET matches == Matches(listing, name)
         IN  IF matches = <<>>
             THEN [kind |-> "return", val |-> None, node |-> cached]
             ELSE IF Len(matches) > 1
             THEN [kind |-> "raise", val |-> Error("RuntimeError"), node |-> cached]
             ELSE [kind |-> "return", val |-> matches[1], node |-> matches[1]]

(***************************************************************************)
(* Sessions, and what the backend holds before they start.                 *)
(***************************************************************************)
S1 == "s1"
S2 == "s2"
NameOf(s) == IF s = S1 THEN <<"n">> ELSE <<"n", "_", "b">>

OtherName == <<"n", "2">>
Stale == <<"n", "_", "9">>
Foreign == <<"n", "2", "_", "0">>

\* Node catalogs with no, one and two nodes of the name of S1.
NodeCatalogs ==
    LET N == NameOf(S1)
        O == OtherName
    IN  { <<>>,
          <<Node(1, O)>>,
          <<Node(1, N)>>,
          <<Node(1, O), Node(2, N)>>,
          <<Node(1, N), Node(2, N)>>,
          <<Node(1, N), Node(2, O), Node(3, N)>> }

PreVolumes == { <<>>, <<Foreign>>, <<Stale>>, <<Foreign, Stale>> }

\* The behaviours of a backend operation a call site is run against: success,
\* success after a rate limit, a rate limit that outlasts the retries, an error.
CallPlans ==
    { [n |-> 0, last |-> "ok", rest |-> "ok"],
      [n |-> 1, last |-> "ok", rest |-> "ok"],
      [n |-> 0, last |-> "fatal", rest |-> "ok"],
      [n |-> RetryTries, last |-> "transient", rest |-> "transient"] }

Pending == [kind |-> "pending"]
Entry(call, arg) == [call |-> call, arg |-> arg]

\* The provisioners of the sessions A, as constructed.
InitFor(A) ==
    /\ \E c \in [A -> 0..MaxVolumes] :
          self = [s \in A |-> [name |-> NameOf(s), count |-> c[s],
                               node |-> Unset]]
    /\ op = [s \in A |-> "none"]
    /\ pc = [s \in A |-> "idle"]
    /\ ret = [s \in A |-> Pending]
    /\ idx = [s \in A |-> 0]
    /\ all_volumes = [s \in A |-> <<>>]
    /\ log = [s \in A |-> <<>>]
    /\ failed = [s \in A |-> 0]
    /\ acc = [s \in A |-> <<>>]
    /\ created = [s \in A |-> FALSE]

(***************************************************************************)
(* Steps shared by the operations.                                         *)
(***************************************************************************)
Set(f, s, v) == [f EXCEPT ![s] = v]
Goto(s, p) == pc' = Set(pc, s, p)
\* The call is issued; a call that fails is the latest failed call.
Logged(s, call, arg, ok) ==
    /\ log' = Set(log, s, Append(log[s], Entry(call, arg)))
    /\ failed' = IF ok THEN failed ELSE Set(failed, s, Len(log[s]) + 1)

\* The operation ends by returning v, or by an error that reaches its caller.
Return(s, v) ==
    /\ pc' = Set(pc, s, "done")
    /\ ret' = Set(ret, s, [kind |-> "return", val |-> v])

Raise(s, e) ==
    /\ pc' = Set(pc, s, "done")
    /\ ret' = Set(ret, s, [kind |-> "raise", val |-> e])

\* A caller starts an operation on an idle provisioner.
Begin(s, o, p) ==
    /\ pc[s] = "idle"
    /\ op' = Set(op, s, o)
    /\ pc' = Set(pc, s, p)
    /\ log' = Set(log, s, <<>>)
    /\ failed' = Set(failed, s, 0)
    /\ ret' = Set(ret, s, Pending)

\* The caller takes the result; the provisioner is idle again.
Finish(s) ==
    /\ pc[s] = "done"
    /\ pc' = Set(pc, s, "idle")
    /\ op' = Set(op, s, "none")
    /\ log' = Set(log, s, <<>>)
    /\ failed' = Set(failed, s, 0)
    /\ ret' = Set(ret, s, Pending)
    /\ UNCHANGED <<backend, self, idx, all_volumes, acc, created, aside>>

\* The two latest accessor calls.
Push(h, r) == IF Len(h) < 2 THEN Append(h, r) ELSE <<h[2], r>>

\* One read of the property `node` with self._node = cached: a retried
\* list_nodes when self._node is not set, then the lookup.  q counts the
\* retried list_nodes calls, listed says that the listing was returned.
Access(cached, name, p) ==
    IF cached # Unset
    THEN LET lk == NodeLookup(cached, <<>>, name)
         IN  [kind |-> lk.kind, val |-> lk.val, node |-> lk.node, q |-> 0,
              listed |-> FALSE, listing |-> <<>>]
    ELSE LET r == retry(p)
         IN  IF r.kind = "raise"
             THEN [kind |-> "raise", val |-> r.val, node |-> cached, q |-> 1,
                   listed |-> FALSE, listing |-> <<>>]
             ELSE LET lk == NodeLookup(cached, nodes, name)
                  IN  [kind |-> lk.kind, val |-> lk.val, node |-> lk.node, q |-> 1,
                       listed |-> TRUE, listing |-> nodes]

\* What an accessor call leaves in the history of accessor calls.
Seen(a) ==
    [kind |-> a.kind, val |-> a.val, q |-> a.q, listed |-> a.listed,
     listing |-> a.listing]

\* The log and the latest failure after the list_nodes call of a read, if it
\* made one.
LogAccess(lf, a) ==
    IF a.q = 0 THEN lf
    ELSE [log |-> Append(lf.log, Entry("list_nodes", <<>>)),
          failed |-> IF a.listed THEN lf.failed ELSE Len(lf.log) + 1]

LogOf(s) == [log |-> log[s], failed |-> failed[s]]

SetLog(s, lf) ==
    /\ log' = Set(log, s, lf.log)
    /\ failed' = Set(failed, s, lf.failed)

(***************************************************************************)
(* The node accessor, called by a caller of the provisioner.               *)
(***************************************************************************)
CallNode(s) ==
    /\ Begin(s, "node", "n_node")
    /\ UNCHANGED <<backend, self, idx, all_volumes, acc, created, aside>>

n_node(s) ==
    /\ pc[s] = "n_node"
    /\ \E p \in CallPlans :
          LET a == Access(self[s].node, self[s].name, p)
          IN  /\ SetLog(s, LogAccess(LogOf(s), a))
              /\ self' = [self EXCEPT ![s].node = a.node]
              /\ acc' = Set(acc, s, Push(acc[s], Seen(a)))
              /\ IF a.kind = "raise" THEN Raise(s, a.val) ELSE Return(s, a.val)
    /\ UNCHANGED <<backend, op, idx, all_volumes, created, aside>>

(***************************************************************************)
(* _destroy_volumes, run by the rollback of _create and by _destroy.       *)
(***************************************************************************)
\* The end of the sweep as it would be if a rollback went on to destroy the
\* node.
SweepNextThenNode(s, ours, i) ==
    IF i <= Len(ours)
    THEN Goto(s, "v_detach") /\ UNCHANGED ret
    ELSE Goto(s, "d_destroy_node") /\ UNCHANGED ret

\* Where the sweep goes with its i-th volume, and where it ends: _create
\* returns False, _destroy goes on to destroy the node.
SweepNext(s, ours, i) ==
    IF i <= Len(ours)
    THEN Goto(s, "v_detach") /\ UNCHANGED ret
    ELSE IF op[s] = "create"
    THEN Return(s, Bool(FALSE))
    ELSE Goto(s, "d_destroy_node") /\ UNCHANGED ret

v_list(s) ==
    /\ pc[s] = "v_list"
    /\ \E p \in CallPlans :
          LET r == retry(p)
          IN  IF r.kind = "return"
              THEN /\ Logged(s, "list_volumes", <<>>, TRUE)
                   /\ all_volumes' = Set(all_volumes, s, volumes)
                   /\ idx' = Set(idx, s, 1)
                   /\ SweepNext(s, OurVolumes(volumes, self[s].name), 1)
              ELSE /\ Logged(s, "list_volumes", <<>>, FALSE)
                   /\ Raise(s, r.val)
                   /\ UNCHANGED <<all_volumes, idx>>
    /\ UNCHANGED <<backend, self, op, acc, created, aside>>

v_detach(s) ==
    /\ pc[s] = "v_detach"
    /\ LET vol == OurVolumes(all_volumes[s], self[s].name)[idx[s]]
       IN  \E p \in CallPlans :
              Logged(s, "detach_volume", vol, retry(p).kind = "return")
    /\ Goto(s, "v_destroy")
    /\ UNCHANGED <<backend, self, op, ret, idx, all_volumes, acc, created, aside>>

v_destroy(s) ==
    /\ pc[s] = "v_destroy"
    /\ LET ours == OurVolumes(all_volumes[s], self[s].name)
           vol == ours[idx[s]]
       IN  /\ \E p \in CallPlans :
                 LET done == retry(p).kind = "return"
                 IN  /\ Logged(s, "destroy_volume", vol, done)
                     /\ volumes' = IF done THEN Without(volumes, vol) ELSE volumes
           /\ idx' = Set(idx, s, idx[s] + 1)
           /\ SweepNext(s, ours, idx[s] + 1)
    /\ UNCHANGED <<nodes, nodeSeq, self, op, all_volumes, acc, created, aside>>

(***************************************************************************)
(* _create.                                                                *)
(***************************************************************************)
\* A provisioner is made for one node: its caller creates the node at most once.
CallCreate(s) ==
    /\ ~created[s]
    /\ Begin(s, "create", "c_resolve")
    /\ created' = Set(created, s, TRUE)
    /\ acc' = Set(acc, s, <<>>)
    /\ UNCHANGED <<backend, self, idx, all_volumes, aside>>

\* Lines 183 to 196: the size, the image, the networks and the security
\* groups are selected from the provider's catalogs; a listing or a selection
\* that fails raises before any node is created.
c_resolve(s) ==
    /\ pc[s] = "c_resolve"
    /\ \E found \in BOOLEAN :
          IF found THEN Goto(s, "c_create_node") /\ UNCHANGED ret
          ELSE Raise(s, Error("RuntimeError"))
    /\ UNCHANGED <<backend, self, op, idx, all_volumes, log, failed, acc, created, aside>>

c_create_node(s) ==
    /\ pc[s] = "c_create_node"
    /\ \E p \in CallPlans :
          LET r == retry(p)
              n == Node(nodeSeq + 1, self[s].name)
          IN  IF r.kind = "return"
              THEN /\ Logged(s, "create_node", self[s].name, TRUE)
                   /\ nodes' = Append(nodes, n)
                   /\ nodeSeq' = nodeSeq + 1
                   /\ self' = [self EXCEPT ![s].node = n]
                   /\ Goto(s, "c_wait_until_running")
                   /\ UNCHANGED ret
              ELSE /\ Logged(s, "create_node", self[s].name, FALSE)
                   /\ Raise(s, r.val)
                   /\ UNCHANGED <<nodes, nodeSeq, self>>
    /\ UNCHANGED <<volumes, op, idx, all_volumes, acc, created, aside>>

\* The volume loop as it would be if it stopped one volume short.
NextVolumeSkipsLast(i, vol_count) ==
    IF i < vol_count THEN "c_create_volume" ELSE "c_update_dns"

\* The loop over vol_names: its i-th volume, or on to _update_dns.
NextVolume(i, vol_count) ==
    IF i <= vol_count THEN "c_create_volume" ELSE "c_update_dns"

c_wait_until_running(s) ==
    /\ pc[s] = "c_wait_until_running"
    /\ \E p \in CallPlans :
          LET r == retry(p)
          IN  IF r.kind = "return"
              THEN /\ Logged(s, "wait_until_running", self[s].node.name, TRUE)
                   /\ idx' = Set(idx, s, 1)
                   /\ Goto(s, NextVolume(1, self[s].count))
                   /\ UNCHANGED ret
              ELSE /\ Logged(s, "wait_until_running", self[s].node.name, FALSE)
                   /\ Raise(s, r.val)
                   /\ UNCHANGED idx
    /\ UNCHANGED <<backend, self, op, all_volumes, acc, created, aside>>

c_create_volume(s) ==
    /\ pc[s] = "c_create_volume"
    /\ LET name == VolNames(self[s].name, self[s].count)[idx[s]]
       IN  \E p \in CallPlans :
              IF retry(p).kind = "return"
              THEN /\ Logged(s, "create_volume", name, TRUE)
                   /\ volumes' = Append(volumes, name)
                   /\ Goto(s, "c_attach_volume")
              ELSE /\ Logged(s, "create_volume", name, FALSE)
                   /\ Goto(s, "v_list")
                   /\ UNCHANGED volumes
    /\ UNCHANGED <<nodes, nodeSeq, self, op, ret, idx, all_volumes, acc, created,
                   aside>>

c_attach_volume(s) ==
    /\ pc[s] = "c_attach_volume"
    /\ LET name == VolNames(self[s].name, self[s].count)[idx[s]]
       IN  \E p \in CallPlans :
              IF retry(p).kind = "return"
              THEN /\ Logged(s, "attach_volume", name, TRUE)
                   /\ idx' = Set(idx, s, idx[s] + 1)
                   /\ Goto(s, NextVolume(idx[s] + 1, self[s].count))
              ELSE /\ Logged(s, "attach_volume", name, FALSE)
                   /\ Goto(s, "v_list")
                   /\ UNCHANGED idx
    /\ UNCHANGED <<backend, self, op, ret, all_volumes, acc, created, aside>>

\* The DNS step as it would be if a failed update started the volume sweep.
c_update_dns_RollsBack(s) ==
    /\ pc[s] = "c_update_dns"
    /\ \E ok \in BOOLEAN :
          /\ Logged(s, "nsupdate", self[s].name, ok)
          /\ Goto(s, IF ok THEN "c_connect" ELSE "v_list")
          /\ UNCHANGED ret
    /\ UNCHANGED <<backend, self, op, idx, all_volumes, acc, created, aside>>

c_update_dns(s) ==
    /\ pc[s] = "c_update_dns"
    /\ \E ok \in BOOLEAN :
          /\ Logged(s, "nsupdate", self[s].name, ok)
          /\ IF ok THEN Goto(s, "c_connect") /\ UNCHANGED ret
             ELSE Raise(s, Error("HTTPError"))
    /\ UNCHANGED <<backend, self, op, idx, all_volumes, acc, created, aside>>

\* The loop of _wait_for_ready after `tries` attempts: connect() until it
\* succeeds; socket and authentication errors are passed over, any other
\* error propagates, and proceed() raises once the attempts are used up.
RECURSIVE ConnectFrom(_, _)
ConnectFrom(p, tries) ==
    IF ~Proceed(tries, ReadyTries)
    THEN [kind |-> "raise", val |-> Error("MaxWhileTries"), calls |-> tries]
    ELSE LET t == tries + 1
             o == OutcomeAt(p, t)
         IN  IF o = "ok"
             THEN [kind |-> "return", val |-> None, calls |-> t]
             ELSE IF o = "transient"
             THEN ConnectFrom(p, t)
             ELSE [kind |-> "raise", val |-> Error(o), calls |-> t]

\* The behaviours of remote.connect() the model runs the loop against.
ConnectPlans ==
    { [n |-> 0, last |-> "ok", rest |-> "ok"],
      [n |-> ReadyTries - 1, last |-> "ok", rest |-> "ok"],
      [n |-> 1, last |-> "fatal", rest |-> "ok"],
      [n |-> ReadyTries, last |-> "ok", rest |-> "ok"] }

c_connect(s) ==
    /\ pc[s] = "c_connect"
    /\ \E p \in ConnectPlans :
          LET r == ConnectFrom(p, 0)
          IN  IF r.kind = "return"
              THEN /\ Logged(s, "connect", self[s].name, TRUE)
                   /\ Goto(s, "c_sentinel")
                   /\ UNCHANGED ret
              ELSE /\ Logged(s, "connect", self[s].name, FALSE)
                   /\ Raise(s, r.val)
    /\ UNCHANGED <<backend, self, op, idx, all_volumes, acc, created, aside>>

c_sentinel(s) ==
    /\ pc[s] = "c_sentinel"
    /\ \E ok \in BOOLEAN :
          /\ Logged(s, "run", self[s].name, ok)
          /\ IF ok THEN Return(s, self[s].node)
             ELSE Raise(s, Error("CommandFailedError"))
    /\ UNCHANGED <<backend, self, op, idx, all_volumes, acc, created, aside>>

(***************************************************************************)
(* _destroy.                                                               *)
(***************************************************************************)
CallDestroy(s) ==
    /\ Begin(s, "destroy", "d_node")
    /\ UNCHANGED <<backend, self, idx, all_volumes, acc, created, aside>>

\* `if not self.node: return True`, then the read of self.node in the log
\* line, then _destroy_volumes.
d_node(s) ==
    /\ pc[s] = "d_node"
    /\ \E p1 \in CallPlans, p2 \in CallPlans :
          LET a == Access(self[s].node, self[s].name, p1)
              b == Access(a.node, self[s].name, p2)
          IN  IF a.kind = "raise" \/ a.val = None
              THEN /\ SetLog(s, LogAccess(LogOf(s), a))
                   /\ self' = [self EXCEPT ![s].node = a.node]
                   /\ acc' = Set(acc, s, Push(acc[s], Seen(a)))
                   /\ IF a.kind = "raise" THEN Raise(s, a.val)
                      ELSE Return(s, Bool(TRUE))
              ELSE /\ SetLog(s, LogAccess(LogAccess(LogOf(s), a), b))
                   /\ self' = [self EXCEPT ![s].node = b.node]
                   /\ acc' = Set(acc, s, Push(Push(acc[s], Seen(a)), Seen(b)))
                   /\ IF b.kind = "raise" THEN Raise(s, b.val)
                      ELSE Goto(s, "v_list") /\ UNCHANGED ret
    /\ UNCHANGED <<backend, op, idx, all_volumes, created, aside>>

\* `return self.node.destroy()`: a read of self.node, then one call, not
\* retried; True removes the node from the backend.
d_destroy_node(s) ==
    /\ pc[s] = "d_destroy_node"
    /\ \E p \in CallPlans, o \in {"True", "False", "raise"} :
          LET a == Access(self[s].node, self[s].name, p)
              lf == LogAccess(LogOf(s), a)
          IN  /\ acc' = Set(acc, s, Push(acc[s], Seen(a)))
              /\ self' = [self EXCEPT ![s].node = a.node]
              /\ IF a.kind = "raise"
                 THEN SetLog(s, lf) /\ Raise(s, a.val) /\ UNCHANGED nodes
                 ELSE IF a.val = None
                 THEN /\ SetLog(s, lf)
                      /\ Raise(s, Error("AttributeError"))
                      /\ UNCHANGED nodes
                 ELSE /\ SetLog(s,
                            [log |-> Append(lf.log, Entry("destroy_node", a.val.name)),
                             failed |-> IF o = "raise" THEN Len(lf.log) + 1
                                        ELSE lf.failed])
                      /\ nodes' = IF o = "True" THEN Without(nodes, a.val) ELSE nodes
                      /\ IF o = "raise" THEN Raise(s, Error("fatal"))
                         ELSE Return(s, Bool(o = "True"))
    /\ UNCHANGED <<volumes, nodeSeq, op, idx, all_volumes, created, aside>>

(***************************************************************************)
(* The specifications.                                                     *)
(***************************************************************************)
\* One provisioning session.
(***************************************************************************)
(* OpenStackProvider: the four catalogs, each listed once and kept.        *)
(***************************************************************************)
Catalogs == {"images", "sizes", "networks", "security_groups"}

Image(name) == [t |-> "image", name |-> name]
Size(name, ram, disk, vcpus) ==
    [t |-> "size", name |-> name, ram |-> ram, disk |-> disk, vcpus |-> vcpus]
Network(name) == [t |-> "network", name |-> name]
Group(id, name) == [t |-> "group", id |-> id, name |-> name]

\* The default of exclude_sizes, 'win-.*': re.match holds of the names that
\* start with 'win-'.
WinPrefix == <<"w", "i", "n", "-">>
Pattern(prefix) == [t |-> "re", prefix |-> prefix]

\* A Python list held in an attribute.
List(items) == [t |-> "list", items |-> items]

RECURSIVE Filter(_, _)
\* filter(lambda s: not re.match(exclude_sizes, s.name), sizes)
Filter(sizes, exclude_sizes) ==
    IF sizes = <<>> THEN <<>>
    ELSE IF startswith(Head(sizes).name, exclude_sizes)
    THEN Filter(Tail(sizes), exclude_sizes)
    ELSE <<Head(sizes)>> \o Filter(Tail(sizes), exclude_sizes)

\* What the backend may answer to a listing call, per catalog.
ListingsOf(k) ==
    CASE k = "images" -> {<<Image(<<"a">>)>>, <<Image(<<"a">>), Image(<<"b">>)>>}
      [] k = "sizes" -> {<<Size(WinPrefix \o <<"x">>, 1, 1, 1), Size(<<"m">>, 1, 1, 1)>>,
                         <<Size(<<"m">>, 1, 1, 1)>>}
      [] k = "networks" -> {<<Network(<<"a">>)>>, <<>>}
      [] k = "security_groups" -> {<<Group(1, <<"a">>)>>, <<Group(1, <<"a">>), Group(2, <<"b">>)>>}

\* The driver methods a backend may lack.
Optional == {"ex_list_networks", "ex_list_security_groups"}

\* retry(self.driver.<method>): the lookup of a method the driver lacks
\* raises AttributeError before anything is called.
Listing(method, p) ==
    IF method \in provider.missing
    THEN [kind |-> "raise", val |-> Error("AttributeError"), calls |-> 0]
    ELSE retry(p)

Issued(r) == IF r.calls > 0 THEN 1 ELSE 0

\* An accessor as it would be if it kept nothing.
FetchNoCache(cur, r, listing, tolerant) ==
    IF r.kind = "return"
    THEN [cache |-> Unset, e |-> [kind |-> "return", val |-> List(listing), q |-> Issued(r)]]
    ELSE IF tolerant /\ r.val = Error("AttributeError")
    THEN [cache |-> List(<<>>),
          e |-> [kind |-> "return", val |-> List(<<>>), q |-> Issued(r)]]
    ELSE [cache |-> Unset, e |-> [kind |-> "raise", val |-> r.val, q |-> Issued(r)]]

\* An accessor as it would be if it did not catch AttributeError.
FetchNoFallback(cur, r, listing, tolerant) ==
    IF cur # Unset
    THEN [cache |-> cur, e |-> [kind |-> "return", val |-> cur, q |-> 0]]
    ELSE IF r.kind = "return"
    THEN [cache |-> List(listing),
          e |-> [kind |-> "return", val |-> List(listing), q |-> Issued(r)]]
    ELSE [cache |-> Unset, e |-> [kind |-> "raise", val |-> r.val, q |-> Issued(r)]]

\* One access of a catalog property whose attribute holds cur: the attribute
\* afterwards and the outcome e of the access, q the listing calls it issued.
\* r is the outcome of the retried listing call and listing what it returned;
\* networks and security_groups (tolerant) turn AttributeError into an empty
\* list, which they keep.
Fetch(cur, r, listing, tolerant) ==
    IF cur # Unset
    THEN [cache |-> cur, e |-> [kind |-> "return", val |-> cur, q |-> 0]]
    ELSE IF r.kind = "return"
    THEN [cache |-> List(listing),
          e |-> [kind |-> "return", val |-> List(listing), q |-> Issued(r)]]
    ELSE IF tolerant /\ r.val = Error("AttributeError")
    THEN [cache |-> List(<<>>),
          e |-> [kind |-> "return", val |-> List(<<>>), q |-> Issued(r)]]
    ELSE [cache |-> Unset, e |-> [kind |-> "raise", val |-> r.val, q |-> Issued(r)]]

\* What hist keeps of an access: that it raised, or the list it returned, and
\* the listing calls it issued.
Kept(e) == IF e.kind = "raise" THEN [e EXCEPT !.val = None] ELSE e

Accessed(k, f) ==
    /\ provider' = [provider EXCEPT !.cache[k] = f.cache]
    /\ hist' = [hist EXCEPT ![k] = Push(@, Kept(f.e))]
    /\ UNCHANGED <<backend, sessionVars, retryVars, pureVars>>

images ==
    \E p \in CallPlans, l \in ListingsOf("images") :
        Accessed("images", Fetch(provider.cache["images"], Listing("list_images", p), l, FALSE))

sizes ==
    \E p \in CallPlans, l \in ListingsOf("sizes") :
        LET kept == IF provider.exclude_sizes # None
                    THEN Filter(l, provider.exclude_sizes.prefix) ELSE l
        IN  Accessed("sizes", Fetch(provider.cache["sizes"], Listing("list_sizes", p), kept, FALSE))

networks ==
    \E p \in CallPlans, l \in ListingsOf("networks") :
        Accessed("networks",
                 Fetch(provider.cache["networks"], Listing("ex_list_networks", p), l, TRUE))

security_groups ==
    \E p \in CallPlans, l \in ListingsOf("security_groups") :
        Accessed("security_groups",
                 Fetch(provider.cache["security_groups"],
                       Listing("ex_list_security_groups", p), l, TRUE))

\* A provider handle as constructed: nothing listed yet.
NewProvider(exclude_sizes, missing) ==
    [exclude_sizes |-> exclude_sizes, missing |-> missing,
     cache |-> [k \in Catalogs |-> Unset]]

NoHist == [k \in Catalogs |-> <<>>]

\* The variables of the provider, of retry alone and of a computation alone,
\* where they play no part.
IdleProvider == provider = NewProvider(Pattern(WinPrefix), {}) /\ hist = NoHist
IdleRetry == plan = [n |-> 0, last |-> "ok", rest |-> "ok"] /\ rres = Pending
IdlePure == input = None /\ output = Pending

(***************************************************************************)
(* _read_conf: the configuration of a provisioner, merged from four        *)
(* sources.  A dict is a function from the keys it holds.                  *)
(***************************************************************************)
Leaves == {<<"machine", "disk">>, <<"machine", "ram">>, <<"machine", "cpus">>,
           <<"volumes", "count">>, <<"volumes", "size">>}

\* The dict with the leaves L, valued by v.
DictOf(L, v) ==
    [sec \in {l[1] : l \in L} |->
        [key \in {l[2] : l \in {x \in L : x[1] = sec}} |-> v[<<sec, key>>]]]

\* OpenStackProvisioner.defaults['openstack']
defaults ==
    [machine |-> [disk |-> 20, ram |-> 8000, cpus |-> 1],
     volumes |-> [count |-> 0, size |-> 0]]

\* The comparison as it would be if the lesser value were kept.
Less(x, y) == x < y

\* lambda x, y: x > y, the comparison _read_conf merges with.
Greater(x, y) == x > y

\* util.selective_update on two sections: a key of b that a lacks is copied;
\* a key of both takes b's value where that is the greater.
MergeLeaves(a, b) ==
    [k \in DOMAIN a \cup DOMAIN b |->
        IF k \notin DOMAIN a THEN b[k]
        ELSE IF k \notin DOMAIN b THEN a[k]
        ELSE IF Greater(b[k], a[k]) THEN b[k] ELSE a[k]]

\* util.selective_update on two configurations: sections are merged key by key.
selective_update(a, b) ==
    [sec \in DOMAIN a \cup DOMAIN b |->
        IF sec \notin DOMAIN a THEN b[sec]
        ELSE IF sec \notin DOMAIN b THEN a[sec]
        ELSE MergeLeaves(a[sec], b[sec])]

RECURSIVE CombineFrom(_, _)
CombineFrom(new_dict, list_of_dicts) ==
    IF list_of_dicts = <<>> THEN new_dict
    ELSE CombineFrom(selective_update(new_dict, Head(list_of_dicts)),
                     Tail(list_of_dicts))

\* util.combine_dicts
combine_dicts(list_of_dicts) == CombineFrom(<<>>, list_of_dicts)

\* _read_conf on the sizing sections of the conf argument, of its 'openstack'
\* section and of config.openstack; a source that is absent is an empty dict.
ReadConf(full_conf, driver_conf, legacy_conf) ==
    combine_dicts(<<full_conf, driver_conf, legacy_conf, defaults>>)

\* The values the sources give a sizing field: below and above every default.
ConfValues == {1, 9000}

\* The sources the configuration is read from: each defines up to MaxKeys
\* sizing fields.
ConfSources ==
    UNION { { DictOf(L, v) : v \in [L -> ConfValues] } :
            L \in {M \in SUBSET Leaves : Cardinality(M) <= MaxKeys} }

read_conf ==
    /\ input.f = "_read_conf" /\ output = Pending
    /\ output' = [kind |-> "return",
                  val |-> ReadConf(input.full_conf, input.driver_conf, input.legacy_conf)]
    /\ UNCHANGED <<backend, sessionVars, retryVars, providerVars, input>>

(***************************************************************************)
(* size, image and security_groups: the selections made for create_node.   *)
(***************************************************************************)
\* Tuples of numbers as Python orders them.
RECURSIVE TupleLess(_, _)
TupleLess(a, b) ==
    IF a = <<>> THEN b # <<>>
    ELSE IF b = <<>> THEN FALSE
    ELSE IF Head(a) # Head(b) THEN Head(a) < Head(b)
    ELSE TupleLess(Tail(a), Tail(b))

\* The sort key as it would be if the fields were compared in reverse.
SizeKeyReversed(size) == <<size.vcpus, size.disk, size.ram>>

\* key=lambda s: (s.ram, s.disk, s.vcpus)
SizeKey(size) == <<size.ram, size.disk, size.vcpus>>

\* x placed into a list sorted by SizeKey, ahead of the elements that do not
\* sort before it.
RECURSIVE Insert(_, _)
Insert(x, seq) ==
    IF seq = <<>> THEN <<x>>
    ELSE IF TupleLess(SizeKey(Head(seq)), SizeKey(x))
    THEN <<Head(seq)>> \o Insert(x, Tail(seq))
    ELSE <<x>> \o seq

\* sorted(seq, key=...): stable, elements of equal keys keep their order.
RECURSIVE sorted(_)
sorted(seq) == IF seq = <<>> THEN <<>> ELSE Insert(Head(seq), sorted(Tail(seq)))

good_size(size, ram, disk, cpu) ==
    ~(size.ram < ram \/ size.disk < disk \/ size.vcpus < cpu)

RECURSIVE GoodSizes(_, _, _, _)
\* filter(good_size, all_sizes)
GoodSizes(all_sizes, ram, disk, cpu) ==
    IF all_sizes = <<>> THEN <<>>
    ELSE (IF good_size(Head(all_sizes), ram, disk, cpu) THEN <<Head(all_sizes)>> ELSE <<>>)
         \o GoodSizes(Tail(all_sizes), ram, disk, cpu)

\* The size property on the machine section conf of the configuration.
SelectSize(conf, all_sizes) ==
    LET good_sizes == GoodSizes(all_sizes, conf.ram, conf.disk, conf.cpus)
    IN  IF good_sizes = <<>>
        THEN [kind |-> "raise", val |-> Error("IndexError")]
        ELSE [kind |-> "return", val |-> sorted(good_sizes)[1]]

\* The amounts of ram, disk and cpus asked for and offered.
Amounts == {1, 2}

\* The size catalogs: up to MaxSizes sizes, named by their place.
SizeCatalogs ==
    UNION { { [i \in 1..n |-> Size(<<"s">> \o str(i), a[i][1], a[i][2], a[i][3])] :
              a \in [1..n -> Amounts \X Amounts \X Amounts] } : n \in 0..MaxSizes }

size ==
    /\ input.f = "size" /\ output = Pending
    /\ output' = SelectSize(input.conf, input.sizes)
    /\ UNCHANGED <<backend, sessionVars, retryVars, providerVars, input>>

\* str.lower() on the letters the model's names are written in.
LowerChar(c) == IF c = "A" THEN "a" ELSE IF c = "B" THEN "b" ELSE c

lower(name) == [i \in 1..Len(name) |-> LowerChar(name[i])]

\* sub in name
Contains(sub, name) ==
    \E i \in 0..(Len(name) - Len(sub)) : SubSeq(name, i + 1, i + Len(sub)) = sub

\* os_specs: '{os_type} {os_version}', then '{os_type}-{os_version}'
os_specs(os_type, os_version) ==
    <<os_type \o <<" ">> \o os_version, os_type \o <<"-">> \o os_version>>

RECURSIVE MatchingImages(_, _)
\* [image for image in images if wanted in image.name.lower()]
MatchingImages(imgs, wanted) ==
    IF imgs = <<>> THEN <<>>
    ELSE (IF Contains(wanted, lower(Head(imgs).name)) THEN <<Head(imgs)>> ELSE <<>>)
         \o MatchingImages(Tail(imgs), wanted)

\* The image property: the matches of the first template that has any.
SelectImage(os_type, os_version, imgs) ==
    LET specs == os_specs(os_type, os_version)
        first == MatchingImages(imgs, specs[1])
        matches == IF first # <<>> THEN first ELSE MatchingImages(imgs, specs[2])
    IN  IF matches = <<>>
        THEN [kind |-> "raise", val |-> Error("RuntimeError")]
        ELSE [kind |-> "return", val |-> matches[1]]

\* The names the catalog images bear.
ImageNames ==
    { <<"a", " ", "1">>, <<"A", " ", "1">>, <<"a", "-", "1">>, <<"A", "-", "1">>,
      <<"x", "a", " ", "1", "y">>, <<"b", " ", "1">>, <<"a", "1">> }

\* The image catalogs: up to MaxImages images.
ImageCatalogs ==
    UNION { { [i \in 1..n |-> Image(a[i])] : a \in [1..n -> ImageNames] } :
            n \in 0..MaxImages }

image ==
    /\ input.f = "image" /\ output = Pending
    /\ output' = SelectImage(input.os_type, input.os_version, input.images)
    /\ UNCHANGED <<backend, sessionVars, retryVars, providerVars, input>>

RECURSIVE MatchingGroups(_, _)
\* [group for group in groups if group.name == name]
MatchingGroups(groups, name) ==
    IF groups = <<>> THEN <<>>
    ELSE (IF Head(groups).name = name THEN <<Head(groups)>> ELSE <<>>)
         \o MatchingGroups(Tail(groups), name)

\* The loop over the names as it would be if the first of several groups of
\* one name were taken.
RECURSIVE ResolveFromFirstOfMany(_, _, _)
ResolveFromFirstOfMany(group_names, groups, result) ==
    IF group_names = <<>>
    THEN [kind |-> "return", val |-> List(result)]
    ELSE LET name == Head(group_names)
             matches == MatchingGroups(groups, name)
         IN  IF matches = <<>>
             THEN [kind |-> "raise", val |-> Error("RuntimeError"),
                   msg |-> "No security groups found", name |-> name]
             ELSE ResolveFromFirstOfMany(Tail(group_names), groups, Append(result, matches[1]))

\* The loop of security_groups over the names still to resolve, result the
\* groups found so far.
RECURSIVE ResolveFrom(_, _, _)
ResolveFrom(group_names, groups, result) ==
    IF group_names = <<>>
    THEN [kind |-> "return", val |-> List(result)]
    ELSE LET name == Head(group_names)
             matches == MatchingGroups(groups, name)
         IN  IF matches = <<>>
             THEN [kind |-> "raise", val |-> Error("RuntimeError"),
                   msg |-> "No security groups found", name |-> name]
             ELSE IF Len(matches) > 1
             THEN [kind |-> "raise", val |-> Error("RuntimeError"),
                   msg |-> "More than one security group found", name |-> name]
             ELSE ResolveFrom(Tail(group_names), groups, Append(result, matches[1]))

\* The security_groups property of a provisioner: group_names is what the
\* provider's conf holds under 'security_groups', None when it holds nothing.
ResolveGroups(group_names, groups) ==
    IF group_names = None
    THEN [kind |-> "return", val |-> None]
    ELSE ResolveFrom(group_names.items, groups, <<>>)

GroupNames == {<<"a">>, <<"b">>}

\* The security-group catalogs: up to MaxGroups groups.
GroupCatalogs ==
    UNION { { [i \in 1..n |-> Group(i, a[i])] : a \in [1..n -> GroupNames] } :
            n \in 0..MaxGroups }

\* What the conf may hold under 'security_groups': nothing, or up to MaxNames
\* names.
GroupRequests ==
    {None} \cup UNION { { List(a) : a \in [1..n -> GroupNames] } : n \in 0..MaxNames }

resolve_security_groups ==
    /\ input.f = "security_groups" /\ output = Pending
    /\ output' = ResolveGroups(input.group_names, input.groups)
    /\ UNCHANGED <<backend, sessionVars, retryVars, providerVars, input>>

\* The names _create_volumes gives the volumes of a node.
vol_names ==
    /\ input.f = "vol_names" /\ output = Pending
    /\ output' = [kind |-> "return", val |-> List(VolNames(input.name, input.vol_count))]
    /\ UNCHANGED <<backend, sessionVars, retryVars, providerVars, input>>

\* Node names, some of them holding an underscore or ending in a digit.
NodeNames ==
    { <<"n">>, <<"n", "_", "b">>, <<"n", "2">>, <<"a", "_">>, <<"n", "_", "0">> }

Init ==
    /\ nodes \in NodeCatalogs
    /\ nodeSeq = Len(nodes)
    /\ volumes \in PreVolumes
    /\ InitFor({S1})
    /\ IdleRetry /\ IdleProvider /\ IdlePure

Next ==
    \/ \E s \in DOMAIN pc : CallNode(s)
    \/ \E s \in DOMAIN pc : n_node(s)
    \/ \E s \in DOMAIN pc : CallCreate(s)
    \/ \E s \in DOMAIN pc : c_resolve(s)
    \/ \E s \in DOMAIN pc : c_create_node(s)
    \/ \E s \in DOMAIN pc : c_wait_until_running(s)
    \/ \E s \in DOMAIN pc : c_create_volume(s)
    \/ \E s \in DOMAIN pc : c_attach_volume(s)
    \/ \E s \in DOMAIN pc : c_update_dns(s)
    \/ \E s \in DOMAIN pc : c_connect(s)
    \/ \E s \in DOMAIN pc : c_sentinel(s)
    \/ \E s \in DOMAIN pc : v_list(s)
    \/ \E s \in DOMAIN pc : v_detach(s)
    \/ \E s \in DOMAIN pc : v_destroy(s)
    \/ \E s \in DOMAIN pc : CallDestroy(s)
    \/ \E s \in DOMAIN pc : d_node(s)
    \/ \E s \in DOMAIN pc : d_destroy_node(s)
    \/ \E s \in DOMAIN pc : Finish(s)

Spec == Init /\ [][Next]_vars

\* Two provisioners, of the nodes named by NameOf, on one backend that starts
\* empty; each asks for one volume, and their operations interleave call by
\* call.
InitTwo ==
    /\ nodes = <<>>
    /\ nodeSeq = 0
    /\ volumes = <<>>
    /\ InitFor({S1, S2})
    /\ \A s \in {S1, S2} : self[s].count = 1
    /\ IdleRetry /\ IdleProvider /\ IdlePure

NextTwo ==
    \/ \E s \in DOMAIN pc : CallCreate(s)
    \/ \E s \in DOMAIN pc : c_resolve(s)
    \/ \E s \in DOMAIN pc : c_create_node(s)
    \/ \E s \in DOMAIN pc : c_wait_until_running(s)
    \/ \E s \in DOMAIN pc : c_create_volume(s)
    \/ \E s \in DOMAIN pc : c_attach_volume(s)
    \/ \E s \in DOMAIN pc : c_update_dns(s)
    \/ \E s \in DOMAIN pc : c_connect(s)
    \/ \E s \in DOMAIN pc : c_sentinel(s)
    \/ \E s \in DOMAIN pc : v_list(s)
    \/ \E s \in DOMAIN pc : v_detach(s)
    \/ \E s \in DOMAIN pc : v_destroy(s)
    \/ \E s \in DOMAIN pc : CallDestroy(s)
    \/ \E s \in DOMAIN pc : d_node(s)
    \/ \E s \in DOMAIN pc : d_destroy_node(s)
    \/ \E s \in DOMAIN pc : Finish(s)

SpecTwo == InitTwo /\ [][NextTwo]_vars

\* retry alone, against every behaviour of the wrapped operation.
RetryPlans == [n : 0..(RetryTries + 1), last : Outcomes, rest : Outcomes]

InitRetry ==
    /\ nodes = <<>>
    /\ nodeSeq = 0
    /\ volumes = <<>>
    /\ InitFor({})
    /\ plan \in RetryPlans
    /\ rres = Pending
    /\ IdleProvider /\ IdlePure

RetryCall ==
    /\ rres = Pending
    /\ rres' = retry(plan)
    /\ UNCHANGED <<backend, sessionVars, plan, providerVars, pureVars>>

NextRetry == RetryCall

SpecRetry == InitRetry /\ [][NextRetry]_vars

\* A provider handle alone: its catalogs are read in any order, any number of
\* times, against a backend whose answers vary.
InitProvider ==
    /\ nodes = <<>>
    /\ nodeSeq = 0
    /\ volumes = <<>>
    /\ InitFor({})
    /\ IdleRetry /\ IdlePure
    /\ \E x \in {Pattern(WinPrefix), None}, m \in SUBSET Optional : provider = NewProvider(x, m)
    /\ hist = NoHist

NextProvider ==
    \/ images
    \/ sizes
    \/ networks
    \/ security_groups

SpecProvider == InitProvider /\ [][NextProvider]_vars

\* The computations of a provisioner, each alone on every input in bounds.
ConfInputs ==
    { [f |-> "_read_conf", full_conf |-> a, driver_conf |-> b, legacy_conf |-> c] :
      a \in ConfSources, b \in ConfSources, c \in ConfSources }

InitConf ==
    /\ nodes = <<>>
    /\ nodeSeq = 0
    /\ volumes = <<>>
    /\ InitFor({})
    /\ IdleRetry /\ IdleProvider
    /\ input \in ConfInputs
    /\ output = Pending

NextConf == read_conf

SpecConf == InitConf /\ [][NextConf]_vars

\* The variables that play no part in a computation alone.
InitPure ==
    /\ nodes = <<>>
    /\ nodeSeq = 0
    /\ volumes = <<>>
    /\ InitFor({})
    /\ IdleRetry /\ IdleProvider
    /\ output = Pending

SizeInputs ==
    { [f |-> "size", conf |-> [ram |-> r, disk |-> d, cpus |-> c], sizes |-> l] :
      r \in Amounts, d \in Amounts, c \in Amounts, l \in SizeCatalogs }

InitSize == InitPure /\ input \in SizeInputs

NextSize == size

SpecSize == InitSize /\ [][NextSize]_vars

ImageInputs ==
    { [f |-> "image", os_type |-> ty, os_version |-> <<"1">>, images |-> l] :
      ty \in {<<"a">>, <<"A">>}, l \in ImageCatalogs }

InitImage == InitPure /\ input \in ImageInputs

NextImage == image

SpecImage == InitImage /\ [][NextImage]_vars

GroupInputs ==
    { [f |-> "security_groups", group_names |-> g, groups |-> l] :
      g \in GroupRequests, l \in GroupCatalogs }

InitGroups == InitPure /\ input \in GroupInputs

NextGroups == resolve_security_groups

SpecGroups == InitGroups /\ [][NextGroups]_vars

NameInputs ==
    { [f |-> "vol_names", name |-> n, vol_count |-> c] :
      n \in NodeNames, c \in 0..MaxCount }

InitNames == InitPure /\ input \in NameInputs

NextNames == vol_names

SpecNames == InitNames /\ [][NextNames]_vars

(***************************************************************************)
(* Properties.                                                             *)
(***************************************************************************)
Sessions == DOMAIN pc

\* v is the name, an underscore, and possibly more.
HasNamePrefix(v, name) ==
    /\ Len(v) > Len(name)
    /\ \A i \in 1..Len(name) : v[i] = name[i]
    /\ v[Len(name) + 1] = "_"

\* The places of the calls `call` in the log of s.
Places(s, call) == { k \in 1..Len(log[s]) : log[s][k].call = call }

VolumeCalls == {"create_volume", "attach_volume"}
SweepCalls == {"list_volumes", "detach_volume", "destroy_volume"}

\* The listing of the sweep of s was returned: the sweep is past list_volumes.
Listed(s) ==
    /\ Places(s, "list_volumes") # {}
    /\ \/ pc[s] \in {"v_detach", "v_destroy", "d_destroy_node"}
       \/ pc[s] = "done" /\ Places(s, "list_volumes") # {Len(log[s])}
       \/ pc[s] = "done" /\ ret[s].kind = "return"

\* The volumes of the listing a sweep of s has to clean up, in listing order.
Swept(s) == SelectSeq(all_volumes[s], LAMBDA v : HasNamePrefix(v, self[s].name))

\* The calls of a whole sweep over the volumes vs.
RECURSIVE SweepOf(_)
SweepOf(vs) ==
    IF vs = <<>> THEN <<>>
    ELSE <<Entry("detach_volume", Head(vs)), Entry("destroy_volume", Head(vs))>>
         \o SweepOf(Tail(vs))

IsPrefix(a, b) == Len(a) <= Len(b) /\ a = SubSeq(b, 1, Len(a))

\* C1: when a create_volume or attach_volume of _create fails, the next call
\* is list_volumes; once the listing is returned, the calls after it are, for
\* each listed volume named '<node-name>_...' in listing order, a detach
\* attempt followed by a destroy attempt, whatever the attempts before it
\* ended as; and _create does not return False before the last of them.
C1_RollbackSweep ==
    \A s \in Sessions :
        op[s] = "create" =>
            LET L == log[s]
                n == Len(L)
            IN  /\ (n > 0 /\ failed[s] = n /\ L[n].call \in VolumeCalls)
                       => pc[s] = "v_list"
                /\ \A k \in 1..(n - 1) :
                       L[k].call \in VolumeCalls /\ L[k + 1].call \notin VolumeCalls
                           => L[k + 1].call \in {"list_volumes", "nsupdate"}
                /\ \A j \in Places(s, "list_volumes") :
                       /\ j > 1 /\ L[j - 1].call \in VolumeCalls
                       /\ Listed(s) =>
                              /\ IsPrefix(SubSeq(L, j + 1, n), SweepOf(Swept(s)))
                              /\ (pc[s] = "v_detach" /\ n = j)
                                     => all_volumes[s] = volumes
                              /\ pc[s] = "done"
                                     => /\ ret[s] = [kind |-> "return", val |-> Bool(FALSE)]
                                        /\ SubSeq(L, j + 1, n) = SweepOf(Swept(s))
                       /\ ~Listed(s) => n = j

\* C1 witness: three volumes were asked for, the second create_volume failed,
\* the sweep found at least two volumes, the detach of one of them failed, and
\* the sweep went on to destroy it and to the volumes after it.
C1_Witness ==
    \E s \in Sessions :
        /\ op[s] = "create" /\ pc[s] = "done"
        /\ self[s].count = 3
        /\ ret[s] = [kind |-> "return", val |-> Bool(FALSE)]
        /\ Len(log[s]) >= 10
        /\ log[s][5].call = "create_volume" /\ log[s][6].call = "list_volumes"
        /\ failed[s] > 6 /\ failed[s] < Len(log[s]) - 1
        /\ log[s][failed[s]].call = "detach_volume"

\* C2: when volume provisioning failed, _create ends by returning False,
\* whatever the calls of the rollback sweep ended as.
C2_CreateReportsFailure ==
    \A s \in Sessions :
        (op[s] = "create" /\ pc[s] = "done" /\ Places(s, "list_volumes") # {})
            => ret[s] = [kind |-> "return", val |-> Bool(FALSE)]

\* The latest accessor call of s.
LastAccess(s) == acc[s][Len(acc[s])]

NameCount(listing, name) ==
    Cardinality({ k \in 1..Len(listing) : listing[k].name = name })

\* C3: an accessor call that lists the catalog returns None without raising
\* when no listed node has the name, returns and caches the node when exactly
\* one has, and raises when more than one has.
C3_NodeAccessor ==
    \A s \in Sessions :
        (op[s] = "node" /\ pc[s] = "done" /\ LastAccess(s).listed) =>
            LET listing == LastAccess(s).listing
                m == NameCount(listing, self[s].name)
            IN  /\ m = 0 => ret[s] = [kind |-> "return", val |-> None]
                /\ m = 1 => /\ ret[s].kind = "return"
                            /\ ret[s].val.t = "node"
                            /\ ret[s].val.name = self[s].name
                            /\ \E k \in 1..Len(listing) : listing[k] = ret[s].val
                            /\ self[s].node = ret[s].val
                /\ m > 1 => ret[s].kind = "raise"

\* C4: _destroy with no node of the name in the listed catalog returns True
\* and issues no volume call and no destroy_node call.
C4_DestroyAbsent ==
    \A s \in Sessions :
        ( /\ op[s] = "destroy" /\ pc[s] = "done"
          /\ acc[s] # <<>> /\ LastAccess(s).listed
          /\ NameCount(LastAccess(s).listing, self[s].name) = 0 )
            => /\ ret[s] = [kind |-> "return", val |-> Bool(TRUE)]
               /\ \A k \in 1..Len(log[s]) :
                      log[s][k].call \notin SweepCalls \cup {"destroy_node"}

Called == rres # Pending

\* C6: against an operation that is rate limited on its first N invocations
\* and then succeeds, N < 24, retry returns the result of invocation N+1 and
\* has invoked the operation N+1 times.
C6_RetrySucceedsAfterN ==
    (Called /\ plan.n < RetryTries /\ plan.last = "ok")
        => /\ rres.kind = "return"
           /\ rres.val = [t |-> "result", i |-> plan.n + 1]
           /\ rres.calls = plan.n + 1

\* C6 witness: 23 rate limits, then the 24th invocation succeeds.
C6_Witness ==
    /\ Called
    /\ plan.n = RetryTries - 1 /\ plan.last = "ok"
    /\ rres.kind = "return" /\ rres.calls = RetryTries

\* C7: an error outside RETRY_EXCEPTIONS raised by invocation N+1 (after N
\* rate limits) reaches the caller, and the operation is not invoked again,
\* whatever a further invocation would have done; with N = 0 the operation is
\* invoked once.
C7_NonTransientPropagates ==
    (Called /\ plan.n < RetryTries /\ plan.last = "fatal")
        => /\ rres.kind = "raise"
           /\ rres.val = [t |-> "error", e |-> "fatal"]
           /\ rres.calls = plan.n + 1

\* C7 witness: the first invocation raises the error and a second one would
\* have succeeded; the operation was invoked once.
C7_Witness ==
    /\ Called
    /\ plan.n = 0 /\ plan.last = "fatal" /\ plan.rest = "ok"
    /\ rres.kind = "raise" /\ rres.calls = 1

\* C8: a call of retry ends after at most 24 invocations; when each of the 24
\* is rate limited it ends by raising; and it returns only the result of its
\* last invocation, which succeeded.
C8_RetryBounded ==
    Called =>
        /\ rres.calls <= 24
        /\ rres.kind \in {"return", "raise"}
        /\ (\A i \in 1..24 : OutcomeAt(plan, i) = "transient")
               => rres.kind = "raise" /\ rres.calls = 24
        /\ rres.kind = "return"
               => /\ rres.calls >= 1
                  /\ OutcomeAt(plan, rres.calls) = "ok"
                  /\ rres.val = [t |-> "result", i |-> rres.calls]

\* C8 witness: every invocation was rate limited, and retry raised after 24.
C8_Witness ==
    /\ Called
    /\ plan.n >= RetryTries
    /\ rres.kind = "raise" /\ rres.calls = RetryTries
    /\ rres.val = [t |-> "error", e |-> "MaxWhileTries"]

\* The calls of a run of _create that nothing fails, in order.
RECURSIVE VolumeSteps(_)
VolumeSteps(names) ==
    IF names = <<>> THEN <<>>
    ELSE <<Entry("create_volume", Head(names)), Entry("attach_volume", Head(names))>>
         \o VolumeSteps(Tail(names))

CreateSteps(s) ==
    <<Entry("create_node", self[s].name), Entry("wait_until_running", self[s].name)>>
    \o VolumeSteps(VolNames(self[s].name, self[s].count))
    \o <<Entry("nsupdate", self[s].name), Entry("connect", self[s].name),
         Entry("run", self[s].name)>>

\* The log of s up to its list_volumes call, if it has one.
BeforeSweep(s) ==
    IF Places(s, "list_volumes") = {} THEN log[s]
    ELSE SubSeq(log[s], 1, (CHOOSE j \in Places(s, "list_volumes") : TRUE) - 1)

\* C9: the calls of _create, up to a rollback, are an initial part of:
\* create_node, wait_until_running, create_volume and attach_volume of each
\* volume in index order, the DNS update, connect, the sentinel wait.  The DNS
\* update is issued with no call failed and every requested volume on the
\* backend; the node is returned with the whole sequence issued and no call
\* failed.
C9_CreateOrder ==
    \A s \in Sessions :
        op[s] = "create" =>
            /\ IsPrefix(BeforeSweep(s), CreateSteps(s))
            /\ Cardinality(Places(s, "list_volumes")) <= 1
            /\ pc[s] = "c_update_dns"
                   => /\ failed[s] = 0
                      /\ Len(log[s]) = 2 + 2 * self[s].count
                      /\ \A i \in 1..self[s].count :
                             \E k \in 1..Len(volumes) :
                                 volumes[k] = VolNames(self[s].name, self[s].count)[i]
            /\ \A k \in Places(s, "nsupdate") : k = 2 * self[s].count + 3
            /\ (pc[s] = "done" /\ ret[s].kind = "return" /\ ret[s].val # Bool(FALSE))
                   => /\ log[s] = CreateSteps(s)
                      /\ failed[s] = 0
                      /\ ret[s].val = self[s].node
                      /\ ret[s].val.t = "node"

\* C9 witness: _create returned the node after three volumes.
C9_Witness ==
    \E s \in Sessions :
        /\ op[s] = "create" /\ pc[s] = "done"
        /\ self[s].count = 3
        /\ ret[s].kind = "return" /\ ret[s].val = self[s].node
        /\ Len(log[s]) = 11

\* C10: _destroy on a provisioner whose accessor returned a node ends with
\* exactly one destroy_node call, issued after every call of the sweep, and
\* with the result of that call.
C10_DestroySweepsThenNode ==
    \A s \in Sessions :
        (op[s] = "destroy" /\ pc[s] = "done" /\ self[s].node # Unset) =>
            LET n == Len(log[s])
            IN  /\ Places(s, "destroy_node") = {n}
                /\ \/ ret[s].kind = "return" /\ failed[s] < n
                   \/ ret[s].kind = "raise" /\ failed[s] = n

\* The calls a run of _create issues after the DNS update.
AfterDns == {"list_volumes", "detach_volume", "destroy_volume", "destroy_node",
             "connect", "run"}

\* s ran _create up to a DNS update that failed.
DnsFailed(s) ==
    /\ op[s] = "create" /\ pc[s] = "done"
    /\ \E k \in Places(s, "nsupdate") : failed[s] = k

\* C11: when the DNS update of _create fails, the error reaches the caller,
\* the update is the last call of the run (no list_volumes, detach_volume,
\* destroy_volume or destroy_node call, no connect, no sentinel wait), and the
\* node and every requested volume are still on the backend.
C11_DnsFailureNoRollback ==
    \A s \in Sessions :
        DnsFailed(s) =>
            /\ ret[s] = [kind |-> "raise", val |-> Error("HTTPError")]
            /\ Places(s, "nsupdate") = {Len(log[s])}
            /\ \A k \in 1..Len(log[s]) : log[s][k].call \notin AfterDns
            /\ \E k \in 1..Len(nodes) : nodes[k] = self[s].node
            /\ \A i \in 1..self[s].count :
                   \E k \in 1..Len(volumes) :
                       volumes[k] = VolNames(self[s].name, self[s].count)[i]

\* C11 witness: the DNS update failed after two volumes were attached.
C11_Witness ==
    \E s \in Sessions :
        /\ DnsFailed(s)
        /\ self[s].count = 2
        /\ ret[s].kind = "raise"
        /\ Len(log[s]) = 7

\* C12 as stated: an access of a catalog after the first issues no listing
\* call and returns.
C12_ListedAtMostOnce ==
    \A k \in Catalogs :
        Len(hist[k]) = 2 => hist[k][2].kind = "return" /\ hist[k][2].q = 0

\* C12: once an access of a catalog has returned, the next access returns the
\* same list and issues no listing call, whatever the backend would answer
\* now; after an access that raised nothing is kept, and the next access
\* issues a listing call of its own.
C12_KeptOnceListed ==
    \A k \in Catalogs :
        /\ (Len(hist[k]) = 2 /\ hist[k][1].kind = "return")
               => /\ hist[k][2] = [kind |-> "return", val |-> hist[k][1].val, q |-> 0]
                  /\ provider.cache[k] = hist[k][1].val
        /\ (Len(hist[k]) = 2 /\ hist[k][1].kind = "raise")
               => /\ hist[k][2].q = 1
                  /\ hist[k][2].kind = "return" => provider.cache[k] = hist[k][2].val

\* C12 witness: each catalog was listed by one access and read again with no
\* listing call.
C12_Witness ==
    \A k \in Catalogs :
        /\ Len(hist[k]) = 2
        /\ hist[k][1].kind = "return" /\ hist[k][1].q = 1
        /\ hist[k][2].kind = "return" /\ hist[k][2].q = 0

\* The driver method behind a catalog that a backend may lack.
MethodOf(k) == IF k = "networks" THEN "ex_list_networks" ELSE "ex_list_security_groups"

\* C17: on a driver without the listing method, every access of networks or
\* security_groups returns the empty list without raising, and the empty list
\* is what the handle keeps.
C17_MissingMethodEmpty ==
    \A k \in {"networks", "security_groups"} :
        MethodOf(k) \in provider.missing =>
            /\ \A i \in 1..Len(hist[k]) :
                   hist[k][i] = [kind |-> "return", val |-> List(<<>>), q |-> 0]
            /\ Len(hist[k]) > 0 => provider.cache[k] = List(<<>>)

\* C17 witness: a driver lacking both methods, each catalog read twice.
C17_Witness ==
    /\ provider.missing = Optional
    /\ \A k \in {"networks", "security_groups"} :
           /\ Len(hist[k]) = 2
           /\ hist[k][2].val = List(<<>>)

\* The sources of a run of _read_conf, the defaults among them.
SourcesOf(in) == {in.full_conf, in.driver_conf, in.legacy_conf, defaults}

\* The values the sources give the field l.
Given(in, l) ==
    {src[l[1]][l[2]] : src \in {x \in SourcesOf(in) :
                                   l[1] \in DOMAIN x /\ l[2] \in DOMAIN x[l[1]]}}

\* C13: the configuration _read_conf builds holds, for each sizing field, the
\* greatest of the values the four sources give it, whichever sources are
\* present.
C13_ConfIsMaximum ==
    (input # None /\ input.f = "_read_conf" /\ output # Pending) =>
        \A l \in Leaves :
            /\ l[1] \in DOMAIN output.val /\ l[2] \in DOMAIN output.val[l[1]]
            /\ output.val[l[1]][l[2]] \in Given(input, l)
            /\ \A v \in Given(input, l) : v <= output.val[l[1]][l[2]]

\* C13 witness: the conf argument gives the disk less than the default and
\* config.openstack gives it more; the greater value is kept, and the other
\* fields keep their defaults.
C13_Witness ==
    /\ input # None /\ input.f = "_read_conf" /\ output # Pending
    /\ input.full_conf = [machine |-> [disk |-> 1]]
    /\ input.driver_conf = <<>>
    /\ input.legacy_conf = [machine |-> [disk |-> 9000]]
    /\ output.val = [defaults EXCEPT !.machine.disk = 9000]

Applied(f) == input # None /\ input.f = f /\ output # Pending

\* The places of the catalog sizes that offer what the configuration asks.
Fitting(in) ==
    {i \in 1..Len(in.sizes) :
        /\ in.sizes[i].ram >= in.conf.ram
        /\ in.sizes[i].disk >= in.conf.disk
        /\ in.sizes[i].vcpus >= in.conf.cpus}

LexLeq(a, b) ==
    \/ a[1] < b[1]
    \/ a[1] = b[1] /\ a[2] < b[2]
    \/ a[1] = b[1] /\ a[2] = b[2] /\ a[3] <= b[3]

\* C14: the size selected is a catalog size offering at least the ram, disk
\* and cpus asked for, and no size offering them has a lexicographically
\* smaller (ram, disk, vcpus); when no size offers them the selection raises.
C14_SmallestFittingSize ==
    Applied("size") =>
        IF Fitting(input) = {}
        THEN output.kind = "raise"
        ELSE /\ output.kind = "return"
             /\ \E i \in Fitting(input) :
                    /\ output.val = input.sizes[i]
                    /\ \A j \in Fitting(input) :
                           LexLeq(<<input.sizes[i].ram, input.sizes[i].disk, input.sizes[i].vcpus>>,
                                  <<input.sizes[j].ram, input.sizes[j].disk, input.sizes[j].vcpus>>)

\* C14 witness: two sizes fit, the first with more disk and fewer cpus, the
\* second with less ram; the second is selected.
C14_Witness ==
    /\ Applied("size")
    /\ Len(input.sizes) = 2
    /\ Fitting(input) = {1, 2}
    /\ input.sizes[1].ram > input.sizes[2].ram
    /\ input.sizes[1].vcpus < input.sizes[2].vcpus
    /\ output = [kind |-> "return", val |-> input.sizes[2]]

\* The places of the catalog images whose name holds the text, letter case
\* aside.
Holding(in, text) ==
    {i \in 1..Len(in.images) : Contains(lower(text), lower(in.images[i].name))}

Least(S) == CHOOSE i \in S : \A j \in S : i <= j

\* C15: the image selected is the first catalog image whose name holds
\* '<type> <version>', letter case aside; failing any, the first whose name
\* holds '<type>-<version>'; failing that too, the selection raises.
C15_ImageSelection ==
    Applied("image") =>
        LET spaced == Holding(input, input.os_type \o <<" ">> \o input.os_version)
            dashed == Holding(input, input.os_type \o <<"-">> \o input.os_version)
        IN  IF spaced # {}
            THEN output = [kind |-> "return", val |-> input.images[Least(spaced)]]
            ELSE IF dashed # {}
            THEN output = [kind |-> "return", val |-> input.images[Least(dashed)]]
            ELSE output = [kind |-> "raise", val |-> Error("RuntimeError")]

\* The places of the catalog groups named name.
Named(in, name) == {i \in 1..Len(in.groups) : in.groups[i].name = name}

\* The places of the requested names that do not name exactly one group.
Unresolved(in) ==
    {j \in 1..Len(in.group_names.items) :
        Cardinality(Named(in, in.group_names.items[j])) # 1}

\* C16: with no names configured the resolution returns None, not a list; with
\* names that each name exactly one catalog group it returns those groups, one
\* per name, in the order of the names; otherwise it raises at the first name
\* that names no group or several.
C16_GroupResolution ==
    Applied("security_groups") =>
        IF input.group_names = None
        THEN output = [kind |-> "return", val |-> None]
        ELSE LET names == input.group_names.items
             IN  IF Unresolved(input) = {}
                 THEN /\ output.kind = "return"
                      /\ output.val.t = "list"
                      /\ Len(output.val.items) = Len(names)
                      /\ \A j \in 1..Len(names) :
                             /\ output.val.items[j].name = names[j]
                             /\ \E i \in Named(input, names[j]) :
                                    output.val.items[j] = input.groups[i]
                 ELSE /\ output.kind = "raise"
                      /\ output.name = names[Least(Unresolved(input))]
                      /\ output.msg =
                             IF Named(input, output.name) = {}
                             THEN "No security groups found"
                             ELSE "More than one security group found"

\* C16 witness: two names resolved against a catalog that lists their groups
\* in the other order.
C16_Witness ==
    /\ Applied("security_groups")
    /\ input.group_names = List(<<<<"b">>, <<"a">>>>)
    /\ input.groups = <<Group(1, <<"a">>), Group(2, <<"b">>)>>
    /\ output = [kind |-> "return",
                 val |-> List(<<Group(2, <<"b">>), Group(1, <<"a">>)>>)]

\* The names of the volumes _create makes for the node of t.
VolumesOf(t) ==
    {VolNames(self[t].name, self[t].count)[i] : i \in 1..self[t].count}

\* C18: no sweep of a provisioner issues a detach_volume or destroy_volume call
\* on a volume made for the node of another provisioner, the names of the two
\* nodes being different.
C18_SweepIsolation ==
    \A s \in Sessions : \A t \in Sessions \ {s} :
        self[s].name # self[t].name =>
            \A k \in 1..Len(log[s]) :
                log[s][k].call \in {"detach_volume", "destroy_volume"}
                    => log[s][k].arg \notin VolumesOf(t)

\* C19: the names of the volumes of a node are as many as the volumes asked
\* for, differ from one another, have one length, and start with the node's
\* name and an underscore; so the sweep of that node selects every one of them
\* from a listing.
C19_VolumeNames ==
    Applied("vol_names") =>
        LET names == output.val.items
        IN  /\ Len(names) = input.vol_count
            /\ \A i, j \in 1..Len(names) :
                   /\ i # j => names[i] # names[j]
                   /\ Len(names[i]) = Len(names[j])
            /\ \A i \in 1..Len(names) :
                   /\ Len(names[i]) > Len(input.name)
                   /\ SubSeq(names[i], 1, Len(input.name) + 1) = input.name \o <<"_">>
            /\ OurVolumes(names, input.name) = names

\* C19 witness: eleven volumes, the first ending in 00 and the last in 10.
C19_Witness ==
    /\ Applied("vol_names")
    /\ input.name = <<"n">> /\ input.vol_count = 11
    /\ output.val.items[1] = <<"n", "_", "0", "0">>
    /\ output.val.items[11] = <<"n", "_", "1", "0">>

\* _create of s returned False.
ReportedFailure(s) ==
    op[s] = "create" /\ pc[s] = "done" /\ ret[s] = [kind |-> "return", val |-> Bool(FALSE)]

\* C20: a run of _create that returns False has issued no destroy_node call,
\* only volume calls after the one that failed, and the node it created is
\* still on the backend.
C20_RollbackKeepsNode ==
    \A s \in Sessions :
        ReportedFailure(s) =>
            /\ Places(s, "destroy_node") = {}
            /\ \E k \in Places(s, "list_volumes") :
                   \A j \in (k + 1)..Len(log[s]) :
                       log[s][j].call \in {"detach_volume", "destroy_volume"}
            /\ self[s].node.t = "node"
            /\ \E k \in 1..Len(nodes) : nodes[k] = self[s].node

\* C20 witness: the second volume failed to attach, two volumes were swept,
\* and _create returned False.
C20_Witness ==
    \E s \in Sessions :
        /\ ReportedFailure(s)
        /\ Places(s, "attach_volume") # {} /\ failed[s] > 0
        /\ Cardinality(Places(s, "destroy_volume")) >= 2
        /\ \E k \in 1..Len(nodes) : nodes[k] = self[s].node

=============================================================================
